---- MODULE Spec2Model ----
(***************************************************************************)
(* Migration ledger engine of riptide (db/migrate.ts) and its CLI          *)
(* (db/cli.ts): getMigrationStatus, runMigrations and rollbackMigration    *)
(* over a remote ledger table reached through client.rpc('pgclient_exec'). *)
(*                                                                         *)
(* One step of the model is one awaited remote call together with the      *)
(* synchronous code that follows it up to the next await (or the return).  *)
(***************************************************************************)
EXTENDS Integers, Sequences, FiniteSets, TLC

(* ------------------------------ bounds --------------------------------- *)

\* Number of records a ledger may hold before the first call of a behaviour.
MaxInitLedger == 1

\* Number of public coordinator calls made in one behaviour.
MaxCalls == 2

(* --------------------------- file names -------------------------------- *)

\* The characters that occur in the modelled file names, in UTF-16 code unit
\* order (the order Array.prototype.sort() compares strings by).
Alphabet == <<".", "0", "1", "2", "3", "_", "a", "b", "c", "d", "l", "m", "q", "s", "z">>

CharCode(c) == CHOOSE i \in 1..Len(Alphabet) : Alphabet[i] = c

Digits == {"0", "1", "2", "3"}

F01 == <<"0", "1", "_", "a", ".", "s", "q", "l">>
F02 == <<"0", "2", "_", "b", ".", "s", "q", "l">>
F03 == <<"0", "3", "_", "c", ".", "s", "q", "l">>
\* A file of the directory that is no migration.
Readme == <<"0", "0", ".", "m", "d">>
\* A file name a ledger may hold that the directory does not (a removed file).
Orphan == <<"0", "0", "_", "z", ".", "s", "q", "l">>

\* fs.readdirSync(migrationsDir): the entries, in no particular order.
MigrationsDir == {F03, Readme, F01, F02}

SqlExt == <<".", "s", "q", "l">>

\* file.endsWith('.sql')
EndsWithSql(f) ==
    /\ Len(f) >= Len(SqlExt)
    /\ SubSeq(f, Len(f) - Len(SqlExt) + 1, Len(f)) = SqlExt

\* a < b as JavaScript compares strings: code unit by code unit, a proper
\* prefix first.
StrLess(a, b) ==
    \E k \in 1..(Len(a) + 1) :
        /\ k <= Len(b)
        /\ \A j \in 1..(k - 1) : a[j] = b[j]
        /\ \/ k = Len(a) + 1
           \/ (k <= Len(a) /\ CharCode(a[k]) < CharCode(b[k]))

\* The mutant of SortFiles: the listing in descending order.
RECURSIVE SortFilesDescending(_)
SortFilesDescending(S) ==
    IF S = {} THEN <<>>
    ELSE LET hi == CHOOSE x \in S : \A y \in S \ {x} : StrLess(y, x)
         IN  <<hi>> \o SortFilesDescending(S \ {hi})

\* files.sort(): ascending in string order.
RECURSIVE SortFiles(_)
SortFiles(S) ==
    IF S = {} THEN <<>>
    ELSE LET lo == CHOOSE x \in S : \A y \in S \ {x} : StrLess(x, y)
         IN  <<lo>> \o SortFiles(S \ {lo})

\* Number of leading digits of f.
RECURSIVE LeadingDigits(_)
LeadingDigits(f) ==
    IF f = <<>> \/ Head(f) \notin Digits THEN 0
    ELSE 1 + LeadingDigits(Tail(f))

\* filename.replace(/^\d+_(.+)\.sql$/, '$1'): the part between the numeric
\* prefix and the extension, or the file name itself when it has another form.
MigrationName(f) ==
    LET d == LeadingDigits(f)
    IN  IF /\ d >= 1
           /\ EndsWithSql(f)
           /\ Len(f) >= d + 1 + 1 + Len(SqlExt)
           /\ f[d + 1] = "_"
        THEN SubSeq(f, d + 2, Len(f) - Len(SqlExt))
        ELSE f

\* getAvailableMigrations: the .sql files, sorted, numbered by position.
GetAvailableMigrations(entries) ==
    LET sorted == SortFiles({f \in entries : EndsWithSql(f)})
    IN  [i \in 1..Len(sorted) |->
            [id |-> i, name |-> MigrationName(sorted[i]), filename |-> sorted[i]]]

(* -------------------------- file contents ------------------------------ *)

\* A migration file is a sequence of lexical pieces:
\*   "up"      a statement of the up body
\*   "marker"  the text "-- Down Migration"
\*   "ws"      white space
\*   "open"    "/*"        "close"  "*/"
\*   "note"    any other text       "drop"   text starting with DROP
WithDown == <<"up", "ws", "marker", "ws", "open", "note", "ws", "drop", "ws", "drop", "ws", "close">>
NoDown == <<"up", "ws">>
\* A down block whose statements are not DROP statements.
DownWithoutDrop == <<"up", "ws", "marker", "ws", "open", "note", "ws", "close">>

\* Positions where /-- Down Migration\s+\/\*/ matches from the marker at i:
\* the position of the "open" piece, or 0.
OpenAfterMarker(text, i) ==
    IF text[i] # "marker" THEN 0
    ELSE LET cands == {j \in (i + 2)..Len(text) :
                          /\ text[j] = "open"
                          /\ \A k \in (i + 1)..(j - 1) : text[k] = "ws"}
         IN  IF cands = {} THEN 0 ELSE CHOOSE j \in cands : TRUE

\* The mutant of DownMatch: the whole file stands in for a missing block.
DownMatchWholeFile(text) ==
    text

\* sql.match(/-- Down Migration\s+\/\*.*?(DROP.*?)\*\//s): capture group 1 of
\* the leftmost match, both .*? taken as short as possible; <<>> when there
\* is no match (null).
DownMatch(text) ==
    LET starts == {i \in 1..Len(text) :
                      /\ OpenAfterMarker(text, i) # 0
                      /\ \E d \in (OpenAfterMarker(text, i) + 1)..Len(text) :
                            /\ text[d] = "drop"
                            /\ \E c \in (d + 1)..Len(text) : text[c] = "close"}
    IN  IF starts = {} THEN <<>>
        ELSE LET i == CHOOSE x \in starts : \A y \in starts : x <= y
                 o == OpenAfterMarker(text, i)
                 ds == {d \in (o + 1)..Len(text) :
                           /\ text[d] = "drop"
                           /\ \E c \in (d + 1)..Len(text) : text[c] = "close"}
                 d == CHOOSE x \in ds : \A y \in ds : x <= y
                 cs == {c \in (d + 1)..Len(text) : text[c] = "close"}
                 c == CHOOSE x \in cs : \A y \in cs : x <= y
             IN  SubSeq(text, d, c - 1)

\* String.prototype.trim()
RECURSIVE Trim(_)
Trim(s) ==
    IF s = <<>> THEN s
    ELSE IF Head(s) = "ws" THEN Trim(Tail(s))
    ELSE IF s[Len(s)] = "ws" THEN Trim(SubSeq(s, 1, Len(s) - 1))
    ELSE s

(* ------------------------------ state ---------------------------------- *)

\* The callers of the coordinator; each makes one call at a time.
Procs == {"p1", "p2"}

VARIABLES
    fileText,     \* the text of each migration file of the directory
    tableExists,  \* whether the ledger table exists in the database
    table,        \* the rows of the ledger table
    nextId,       \* the next value of the table's SERIAL id
    pc,           \* where each caller stands in its call
    op,           \* the call a caller is in: its name and options.dryRun
    loc,          \* the locals of that call
    result,       \* what the call returned (or that it threw)
    calls,        \* the remote calls the current call has made, in order
    pre,          \* the ledger rows when the current call started
    prev,         \* the previous completed call of the caller
    callsLeft     \* calls that may still be started

migrationVars == <<fileText, tableExists, table, nextId, pc, op, loc, result,
                   calls, pre, prev, callsLeft>>

\* The rate limiter of the security utilities, a module of the same process.
VARIABLES
    loginAttempts,  \* the Map of the module: key -> [count, resetAt]
    now,            \* what Date.now() returns
    ret,            \* the last call of the rate limiter, its time and what it returned
    window,         \* per key, the calls of checkRateLimit in its current window
    advances        \* how often the clock was moved

securityVars == <<loginAttempts, now, ret, window, advances>>

\* The route protection middleware, which serves the requests of the web
\* application.
VARIABLES
    request,   \* the last request the middleware was called with, and its options
    response   \* what the middleware returned for it

middlewareVars == <<request, response>>

\* The RipTideProvider of the web application and its login function.
VARIABLES
    provider,  \* the provider: whether its client is set, and config.rateLimit
    login,     \* the current call of login: where it stands and how it ended
    failures   \* per key, the logins of its current window whose signIn failed

providerVars == <<provider, login, failures>>

\* The SessionProvider and the user_sessions table it updates.
VARIABLES
    sessionProvider,  \* enableCsrf and the csrfToken state of the provider
    userSessions,     \* the user_sessions table: id -> is_revoked
    revoke            \* the current call of revokeSession

sessionVars == <<sessionProvider, userSessions, revoke>>

webVars == <<middlewareVars, providerVars, sessionVars>>

vars == <<migrationVars, securityVars, webVars>>

NoRequest == [session |-> FALSE, path |-> <<>>, publicRoutes |-> {},
              authPage |-> <<>>, defaultProtectedRoute |-> <<>>]

NoResponse == [kind |-> "none", to |-> <<>>, redirectTo |-> <<>>]

\* No request has been served.
InitMiddlewareVars ==
    /\ request = NoRequest
    /\ response = NoResponse

\* The e-mail addresses logins are made with, and their rate limit keys
\* `login:${email}`.
Emails == {"a@example.com", "b@example.com"}

RateLimitKey(email) ==
    CASE email = "a@example.com" -> "login:a@example.com"
      [] email = "b@example.com" -> "login:b@example.com"

\* The session ids of the user_sessions table.
SessionIds == {"s1", "s2"}

NoLogin == [pc |-> "idle", email |-> "none", checked |-> FALSE,
            allowed |-> FALSE, signIn |-> FALSE,
            error |-> "none", limited |-> FALSE, entry |-> [count |-> 0, resetAt |-> 0]]

NoRevoke == [pc |-> "idle", id |-> "none", token |-> 0, value |-> FALSE,
             csrfToken |-> 0, before |-> [s \in SessionIds |-> FALSE]]

\* useState(null): the provider has no client yet; max and windowMs are 0
\* while config.rateLimit gives none.
InitProvider ==
    /\ provider = [mounted |-> FALSE, supabase |-> FALSE, max |-> 0, windowMs |-> 0]
    /\ login = NoLogin
    /\ failures = [k \in {} |-> 0]

\* useState(''): the token is empty (0) until the effect of the mount has
\* run; no session of the table is revoked.
InitSessionProvider ==
    /\ sessionProvider = [mounted |-> FALSE, enableCsrf |-> TRUE, csrfToken |-> 0,
                          generated |-> 0]
    /\ userSessions = [s \in SessionIds |-> FALSE]
    /\ revoke = NoRevoke

\* No request has been served, no provider has been mounted.
InitWeb ==
    /\ InitMiddlewareVars
    /\ InitProvider
    /\ InitSessionProvider

\* new Map(): no key has an entry.
EmptyMap == [k \in {} |-> 0]

NoCall == [fn |-> "none", key |-> "none", maxAttempts |-> 0, value |-> 0,
           before |-> EmptyMap, seen |-> 0, at |-> 0]

\* The module as loaded: the Map is empty and nothing was called.
InitSecurity ==
    /\ loginAttempts = EmptyMap
    /\ now = 0
    /\ ret = NoCall
    /\ window = EmptyMap
    /\ advances = 0

SqlFiles == {f \in MigrationsDir : EndsWithSql(f)}

NoMigration == [id |-> 0, name |-> <<>>, filename |-> <<>>, appliedAt |-> "undefined"]

NoLocals == [pending |-> <<>>, i |-> 0, applied |-> <<>>, last |-> NoMigration,
             downSql |-> <<>>]

NoStatus == [total |-> 0, applied |-> 0, pending |-> 0, migrations |-> <<>>]

NoResult == [kind |-> "none", success |-> FALSE, appliedMigrations |-> <<>>,
             error |-> "none", status |-> NoStatus]

NoPrev == [name |-> "none", dryRun |-> FALSE, kind |-> "none", success |-> FALSE,
           inserted |-> 0, before |-> {}]

\* A row as the INSERT of runMigrations writes it; applied_at defaults to
\* now() and is NOT NULL, written "ts".
Row(id, filename) ==
    [id |-> id, name |-> MigrationName(filename), filename |-> filename,
     appliedAt |-> "ts"]

\* The ledgers a behaviour may start from: up to MaxInitLedger rows, ids in
\* insertion order, for files of the directory or for a file since removed,
\* the same file possibly twice.
InitLedgers ==
    UNION {[1..n -> SqlFiles \cup {Orphan}] : n \in 0..MaxInitLedger}

\* The ledger table holds the rows of one of the ledgers, inserted in order.
InitLedger(ledgers) ==
    \E l \in ledgers :
        /\ table = {Row(i, l[i]) : i \in 1..Len(l)}
        /\ nextId = Len(l) + 1
        /\ tableExists \in (IF Len(l) = 0 THEN BOOLEAN ELSE {TRUE})

\* No caller is in a call.
InitCallers ==
    /\ op = [p \in Procs |-> [name |-> "none", dryRun |-> FALSE]]
    /\ loc = [p \in Procs |-> NoLocals]
    /\ result = [p \in Procs |-> NoResult]
    /\ calls = [p \in Procs |-> <<>>]
    /\ pre = [p \in Procs |-> {}]
    /\ prev = [p \in Procs |-> NoPrev]

InitCommon ==
    /\ InitSecurity
    /\ InitWeb
    /\ InitLedger(InitLedgers)
    /\ InitCallers

\* One caller: the coordinator used by a single operator. At most one file
\* of the directory lacks a down block or has one without a DROP.
Init ==
    /\ InitCommon
    /\ \E bad \in SqlFiles \cup {Readme}, t \in {NoDown, DownWithoutDrop} :
          fileText = [f \in SqlFiles |-> IF f = bad THEN t ELSE WithDown]
    /\ callsLeft = MaxCalls
    /\ pc = [p \in Procs |-> IF p = "p1" THEN "idle" ELSE "off"]

(* ------------------------- ledger store access ------------------------- *)

\* The mutant of SortById: the rows ordered by file name, not by id.
RECURSIVE SortByFilename(_)
SortByFilename(rows) ==
    IF rows = {} THEN <<>>
    ELSE LET lo == CHOOSE r \in rows : \A q \in rows :
                       \/ StrLess(r.filename, q.filename)
                       \/ (r.filename = q.filename /\ r.id <= q.id)
         IN  <<lo>> \o SortByFilename(rows \ {lo})

\* SELECT ... ORDER BY id ASC
RECURSIVE SortById(_)
SortById(rows) ==
    IF rows = {} THEN <<>>
    ELSE LET lo == CHOOSE r \in rows : \A q \in rows : r.id <= q.id
         IN  <<lo>> \o SortById(rows \ {lo})

\* One remote call as the caller's history records it.
Call(kind, file, ok) == [kind |-> kind, file |-> file, ok |-> ok]

(* ----------------------------- results --------------------------------- *)

Success(applied) ==
    [kind |-> "result", success |-> TRUE, appliedMigrations |-> applied,
     error |-> "none", status |-> NoStatus]

\* The catch blocks of runMigrations and rollbackMigration.
Failure(msg) ==
    [kind |-> "result", success |-> FALSE, appliedMigrations |-> <<>>,
     error |-> msg, status |-> NoStatus]

\* getMigrationStatus has no catch block: an error leaves it as an exception.
Threw(msg) ==
    [kind |-> "threw", success |-> FALSE, appliedMigrations |-> <<>>,
     error |-> msg, status |-> NoStatus]

StatusResult(st) ==
    [kind |-> "status", success |-> TRUE, appliedMigrations |-> <<>>,
     error |-> "none", status |-> st]

\* An error raised inside the call named `name`.
Raise(name, msg) == IF name = "status" THEN Threw(msg) ELSE Failure(msg)

(* --------------------------- pure pieces ------------------------------- *)

\* new Map(appliedMigrations.map(m => [m.filename, m])).get(filename)?.appliedAt:
\* of the rows with that file name the last one wins; "undefined" without one.
AppliedAtOf(applied, filename) ==
    LET hits == {i \in 1..Len(applied) : applied[i].filename = filename}
    IN  IF hits = {} THEN "undefined"
        ELSE applied[CHOOSE i \in hits : \A j \in hits : j <= i].appliedAt

\* The mutant of ComputeStatus: rows and definitions joined on id.
ComputeStatusById(applied, available) ==
    [total |-> Len(available),
     applied |-> Len(applied),
     pending |-> Len(available) - Len(applied),
     migrations |->
        [i \in 1..Len(available) |->
            [id |-> available[i].id, name |-> available[i].name,
             filename |-> available[i].filename,
             appliedAt |-> IF \E j \in 1..Len(applied) : applied[j].id = available[i].id
                           THEN "ts" ELSE "undefined"]]]

\* getMigrationStatus, lines 91-107: the definitions decorated with appliedAt,
\* and the counts.
ComputeStatus(applied, available) ==
    [total |-> Len(available),
     applied |-> Len(applied),
     pending |-> Len(available) - Len(applied),
     migrations |->
        [i \in 1..Len(available) |->
            [id |-> available[i].id, name |-> available[i].name,
             filename |-> available[i].filename,
             appliedAt |-> AppliedAtOf(applied, available[i].filename)]]]

\* A mutant of PendingMigrations: the definitions are not filtered.
PendingMigrationsAll(st) == st.migrations

\* status.migrations.filter(m => !m.appliedAt)
PendingMigrations(st) ==
    SelectSeq(st.migrations, LAMBDA m : m.appliedAt = "undefined")

\* The mutant of ShouldExecute: the dryRun option is not looked at.
ShouldExecuteAlways(dryRun) == TRUE

\* if (!dryRun) in executeSqlFile, runMigrations and rollbackMigration.
ShouldExecute(dryRun) == ~dryRun

\* The mutant of SqlErrorThrows: the error of the call is not looked at.
SqlErrorIgnored(error) == FALSE

\* executeSqlFile: if (error) throw new Error(...)
SqlErrorThrows(error) == error

\* The mutant of RollbackErrorThrows: the error of the call is not looked at.
RollbackErrorIgnored(error) == FALSE

\* rollbackMigration: if (error) throw new Error('Failed to execute rollback')
RollbackErrorThrows(error) == error

\* The mutant of LastMigration: the row of the highest file name.
HighestSequence(applied) ==
    LET byName == SortByFilename({applied[i] : i \in 1..Len(applied)})
    IN  byName[Len(byName)]

\* appliedMigrations[appliedMigrations.length - 1]
LastMigration(applied) == applied[Len(applied)]

\* The rows after DELETE FROM table WHERE id = ...
DeleteById(rows, id) == {r \in rows : r.id # id}

\* The mutant of InsertRow: the row replaces the rows of the table.
InsertRowReplacing(rows, id, filename) == {Row(id, filename)}

\* A mutant of InsertRow: a file that has a row gets no second one.
InsertRowUnlessPresent(rows, id, filename) ==
    IF \E r \in rows : r.filename = filename THEN rows
    ELSE rows \cup {Row(id, filename)}

\* The rows after INSERT INTO table (name, filename) VALUES (...)
InsertRow(rows, id, filename) == rows \cup {Row(id, filename)}

(* ------------------------------ calls ---------------------------------- *)

Begin(p, name, dryRun, first) ==
    /\ pc[p] = "idle"
    /\ callsLeft > 0
    /\ callsLeft' = callsLeft - 1
    /\ pc' = [pc EXCEPT ![p] = first]
    /\ op' = [op EXCEPT ![p] = [name |-> name, dryRun |-> dryRun]]
    /\ loc' = [loc EXCEPT ![p] = NoLocals]
    /\ result' = [result EXCEPT ![p] = NoResult]
    /\ calls' = [calls EXCEPT ![p] = <<>>]
    /\ pre' = [pre EXCEPT ![p] = table]
    /\ UNCHANGED <<fileText, tableExists, table, nextId, prev>>
    /\ UNCHANGED securityVars
    /\ UNCHANGED webVars

\* getMigrationStatus(options) is called.
CallGetMigrationStatus(p) == Begin(p, "status", FALSE, "status_ensure")

\* runMigrations(options) is called.
CallRunMigrations(p) == \E dryRun \in BOOLEAN : Begin(p, "run", dryRun, "run_ensure")

\* rollbackMigration(options) is called.
CallRollbackMigration(p) ==
    \E dryRun \in BOOLEAN : Begin(p, "rollback", dryRun, "rollback_ensure")

\* The call returns to its caller (or its exception reaches it).
Finish(p, res) ==
    /\ pc' = [pc EXCEPT ![p] = "done"]
    /\ result' = [result EXCEPT ![p] = res]

\* ensureMigrationsTable: CREATE TABLE IF NOT EXISTS; the outcome of the
\* remote call is not looked at.
EnsureMigrationsTable(p) ==
    /\ pc[p] \in {"run_ensure", "status_ensure", "rollback_ensure"}
    /\ \E ok \in BOOLEAN :
          /\ tableExists' = (tableExists \/ ok)
          /\ calls' = [calls EXCEPT ![p] = Append(@, Call("create", <<>>, ok))]
    /\ pc' = [pc EXCEPT ![p] = CASE pc[p] = "run_ensure" -> "status_ensure"
                                 [] pc[p] = "status_ensure" -> "status_select"
                                 [] OTHER -> "rollback_select"]
    /\ UNCHANGED <<fileText, table, nextId, op, loc, result, pre, prev, callsLeft>>
    /\ UNCHANGED securityVars
    /\ UNCHANGED webVars

\* runMigrations, lines 140-148, once getMigrationStatus has returned st.
RunAfterStatus(p, st) ==
    IF st.pending = 0 \/ PendingMigrations(st) = <<>>
    THEN /\ Finish(p, Success(<<>>))
         /\ UNCHANGED loc
    ELSE /\ pc' = [pc EXCEPT ![p] = "run_sql"]
         /\ loc' = [loc EXCEPT ![p].pending = PendingMigrations(st), ![p].i = 1]
         /\ UNCHANGED result

\* getMigrationStatus, lines 88-107: SELECT the rows (getAppliedMigrations),
\* list the directory, join. Called by the caller or by runMigrations.
GetMigrationStatus(p) ==
    /\ pc[p] = "status_select"
    /\ \E rpcOk \in BOOLEAN, dirOk \in BOOLEAN :
          LET ok == rpcOk /\ tableExists
              st == ComputeStatus(SortById(table), GetAvailableMigrations(MigrationsDir))
          IN  /\ calls' = [calls EXCEPT ![p] = Append(@, Call("select", <<>>, ok))]
              /\ IF ~ok
                 THEN /\ Finish(p, Raise(op[p].name, "Failed to get applied migrations"))
                      /\ UNCHANGED loc
                 ELSE IF ~dirOk
                 THEN /\ Finish(p, Raise(op[p].name, "ENOENT"))
                      /\ UNCHANGED loc
                 ELSE IF op[p].name = "status"
                 THEN /\ Finish(p, StatusResult(st))
                      /\ UNCHANGED loc
                 ELSE RunAfterStatus(p, st)
    /\ UNCHANGED <<fileText, tableExists, table, nextId, op, pre, prev, callsLeft>>
    /\ UNCHANGED securityVars
    /\ UNCHANGED webVars

\* The end of one pass of the for loop of runMigrations.
NextMigration(p, applied) ==
    IF loc[p].i = Len(loc[p].pending)
    THEN /\ Finish(p, Success(applied))
         /\ loc' = [loc EXCEPT ![p].applied = applied]
    ELSE /\ pc' = [pc EXCEPT ![p] = "run_sql"]
         /\ loc' = [loc EXCEPT ![p].applied = applied, ![p].i = @ + 1]
         /\ UNCHANGED result

\* A mutant of AfterSqlFile: the SQL of all pending migrations is sent
\* first, the ledger is written after the last.
AfterSqlFileBatched(p) ==
    IF loc[p].i < Len(loc[p].pending)
    THEN [pc |-> "run_sql", i |-> loc[p].i + 1]
    ELSE [pc |-> "run_insert", i |-> loc[p].i]

\* runMigrations, lines 158-166: once executeSqlFile has returned, the same
\* pass of the loop inserts the ledger row of that migration.
AfterSqlFile(p) == [pc |-> "run_insert", i |-> loc[p].i]

\* executeSqlFile for the migration the loop is at: the file's text goes to
\* the remote call unless this is a dry run.
ExecuteSqlFile(p) ==
    /\ pc[p] = "run_sql"
    /\ LET m == loc[p].pending[loc[p].i]
       IN  IF ShouldExecute(op[p].dryRun)
           THEN \E ok \in BOOLEAN :
                   /\ calls' = [calls EXCEPT ![p] = Append(@, Call("sql", m.filename, ok))]
                   /\ IF SqlErrorThrows(~ok)
                      THEN /\ Finish(p, Failure("Failed to execute SQL file"))
                           /\ UNCHANGED loc
                      ELSE /\ pc' = [pc EXCEPT ![p] = AfterSqlFile(p).pc]
                           /\ loc' = [loc EXCEPT ![p].i = AfterSqlFile(p).i]
                           /\ UNCHANGED result
           ELSE /\ NextMigration(p, loc[p].applied)
                /\ UNCHANGED calls
    /\ UNCHANGED <<fileText, tableExists, table, nextId, op, pre, prev, callsLeft>>
    /\ UNCHANGED securityVars
    /\ UNCHANGED webVars

\* runMigrations, lines 160-169: INSERT the ledger row (the outcome of the
\* remote call is not looked at) and push the migration.
RecordMigration(p) ==
    /\ pc[p] = "run_insert"
    /\ LET m == loc[p].pending[loc[p].i]
       IN  \E rpcOk \in BOOLEAN :
              LET ok == rpcOk /\ tableExists
              IN  /\ calls' = [calls EXCEPT ![p] = Append(@, Call("insert", m.filename, ok))]
                  /\ table' = IF ok THEN InsertRow(table, nextId, m.filename) ELSE table
                  /\ nextId' = IF ok THEN nextId + 1 ELSE nextId
                  /\ NextMigration(p, Append(loc[p].applied, m))
    /\ UNCHANGED <<fileText, tableExists, op, pre, prev, callsLeft>>
    /\ UNCHANGED securityVars
    /\ UNCHANGED webVars

\* The mutant of EmptyLedgerResult: an empty ledger is reported as an error.
EmptyLedgerIsError == Failure("No migrations to roll back")

\* rollbackMigration, lines 197-202: nothing applied, nothing to roll back.
EmptyLedgerResult == Success(<<>>)

\* rollbackMigration, lines 195-222 (and 239-242 on a dry run): SELECT the
\* rows, take the last, read its file and extract the down block.
RollbackSelect(p) ==
    /\ pc[p] = "rollback_select"
    /\ \E rpcOk \in BOOLEAN :
          LET ok == rpcOk /\ tableExists
              applied == SortById(table)
              last == LastMigration(applied)
              down == DownMatch(fileText[last.filename])
          IN  /\ calls' = [calls EXCEPT ![p] = Append(@, Call("select", <<>>, ok))]
              /\ IF ~ok
                 THEN /\ Finish(p, Failure("Failed to get applied migrations"))
                      /\ UNCHANGED loc
                 ELSE IF Len(applied) = 0
                 THEN /\ Finish(p, EmptyLedgerResult)
                      /\ UNCHANGED loc
                 ELSE IF last.filename \notin DOMAIN fileText
                 THEN /\ Finish(p, Failure("ENOENT"))
                      /\ UNCHANGED loc
                 ELSE IF down = <<>>
                 THEN /\ Finish(p, Failure("Could not find down migration"))
                      /\ UNCHANGED loc
                 ELSE IF ShouldExecute(op[p].dryRun)
                 THEN /\ pc' = [pc EXCEPT ![p] = "rollback_down"]
                      /\ loc' = [loc EXCEPT ![p].last = last, ![p].downSql = Trim(down)]
                      /\ UNCHANGED result
                 ELSE /\ Finish(p, Success(<<last>>))
                      /\ loc' = [loc EXCEPT ![p].last = last, ![p].downSql = Trim(down)]
    /\ UNCHANGED <<fileText, tableExists, table, nextId, op, pre, prev, callsLeft>>
    /\ UNCHANGED securityVars
    /\ UNCHANGED webVars

\* rollbackMigration, lines 225-229: the down SQL goes to the remote call.
RollbackExecute(p) ==
    /\ pc[p] = "rollback_down"
    /\ \E ok \in BOOLEAN :
          /\ calls' = [calls EXCEPT ![p] = Append(@, Call("down", loc[p].last.filename, ok))]
          /\ IF RollbackErrorThrows(~ok)
             THEN Finish(p, Failure("Failed to execute rollback"))
             ELSE /\ pc' = [pc EXCEPT ![p] = "rollback_delete"]
                  /\ UNCHANGED result
    /\ UNCHANGED <<fileText, tableExists, table, nextId, op, loc, pre, prev, callsLeft>>
    /\ UNCHANGED securityVars
    /\ UNCHANGED webVars

\* rollbackMigration, lines 231-242: DELETE the row by id (the outcome of the
\* remote call is not looked at) and return the row.
RollbackDelete(p) ==
    /\ pc[p] = "rollback_delete"
    /\ \E rpcOk \in BOOLEAN :
          LET ok == rpcOk /\ tableExists
          IN  /\ calls' = [calls EXCEPT ![p] = Append(@, Call("delete", loc[p].last.filename, ok))]
              /\ table' = IF ok THEN DeleteById(table, loc[p].last.id) ELSE table
    /\ Finish(p, Success(<<loc[p].last>>))
    /\ UNCHANGED <<fileText, tableExists, nextId, op, loc, pre, prev, callsLeft>>
    /\ UNCHANGED securityVars
    /\ UNCHANGED webVars

\* The number of rows the call has inserted.
Inserted(cs) == Cardinality({i \in 1..Len(cs) : cs[i].kind = "insert" /\ cs[i].ok})

\* The caller has its result and may call again.
Return(p) ==
    /\ pc[p] = "done"
    /\ pc' = [pc EXCEPT ![p] = "idle"]
    /\ prev' = [prev EXCEPT ![p] = [name |-> op[p].name, dryRun |-> op[p].dryRun,
                                    kind |-> result[p].kind,
                                    success |-> result[p].success,
                                    inserted |-> Inserted(calls[p]),
                                    before |-> pre[p]]]
    /\ op' = [op EXCEPT ![p] = [name |-> "none", dryRun |-> FALSE]]
    /\ loc' = [loc EXCEPT ![p] = NoLocals]
    /\ result' = [result EXCEPT ![p] = NoResult]
    /\ calls' = [calls EXCEPT ![p] = <<>>]
    /\ pre' = [pre EXCEPT ![p] = {}]
    /\ UNCHANGED <<fileText, tableExists, table, nextId, callsLeft>>
    /\ UNCHANGED securityVars
    /\ UNCHANGED webVars

Next ==
    \E p \in Procs :
        \/ CallGetMigrationStatus(p)
        \/ CallRunMigrations(p)
        \/ CallRollbackMigration(p)
        \/ EnsureMigrationsTable(p)
        \/ GetMigrationStatus(p)
        \/ ExecuteSqlFile(p)
        \/ RecordMigration(p)
        \/ RollbackSelect(p)
        \/ RollbackExecute(p)
        \/ RollbackDelete(p)
        \/ Return(p)

Spec == Init /\ [][Next]_vars

(* ------------------------ notions of the claims ------------------------ *)

\* The caller is in (or at the end of) a call of that name and mode.
InCall(p, name, dryRun) == op[p].name = name /\ op[p].dryRun = dryRun

AtEnd(p) == pc[p] = "done"

\* The positions of the caller's history holding a remote call of that kind.
CallsOf(p, kind) == {i \in 1..Len(calls[p]) : calls[p][i].kind = kind}

\* The definitions without a row of their file name among `rows`.
PendingOver(rows) ==
    PendingMigrations(ComputeStatus(SortById(rows), GetAvailableMigrations(MigrationsDir)))

\* The row of the highest id among `rows`.
HighestId(rows) == CHOOSE r \in rows : \A q \in rows : q.id <= r.id

Filenames(ms) == [i \in 1..Len(ms) |-> ms[i].filename]

\* The files whose SQL this call executed and whose row it inserted, in order.
Recorded(p) ==
    LET IsRec(c) == c.kind = "insert" /\ c.ok
        recs == SelectSeq(calls[p], IsRec)
    IN  [i \in 1..Len(recs) |-> recs[i].file]

(* ------------------------------- C1 ------------------------------------ *)

\* C1: in a non-dry-run runMigrations, a migration's SQL call that reports an
\* error is the last remote call of the run: the run has ended in failure, no
\* later migration's SQL was sent, and the rows the run added to the ledger are
\* all of migrations whose SQL succeeded before the failing one.
C1_StopsAtFirstSqlError ==
    \A p \in Procs :
        InCall(p, "run", FALSE) =>
            \A i \in CallsOf(p, "sql") :
                ~calls[p][i].ok =>
                    /\ i = Len(calls[p])
                    /\ AtEnd(p)
                    /\ ~result[p].success
                    /\ \A r \in table \ pre[p] :
                          /\ r.filename # calls[p][i].file
                          /\ \E j \in CallsOf(p, "sql") :
                                j < i /\ calls[p][j].ok /\ calls[p][j].file = r.filename

\* The 2nd of 3 pending migrations failed after the 1st was recorded.
C1_Witness ==
    \E p \in Procs :
        /\ InCall(p, "run", FALSE) /\ AtEnd(p)
        /\ Len(loc[p].pending) = 3
        /\ loc[p].i = 2
        /\ \E i \in CallsOf(p, "sql") : ~calls[p][i].ok
        /\ table # pre[p]

(* ------------------------------- C2 ------------------------------------ *)

\* C2: when runMigrations fails at a migration's SQL, the result has
\* success = false, an error, and appliedMigrations equal to the migrations
\* executed and recorded earlier in the run, in apply order.
C2_PartialListOnFailure ==
    \A p \in Procs :
        (/\ InCall(p, "run", FALSE) /\ AtEnd(p)
         /\ \E i \in CallsOf(p, "sql") : ~calls[p][i].ok)
        => /\ ~result[p].success
           /\ result[p].error # "none"
           /\ Filenames(result[p].appliedMigrations) = Recorded(p)

(* ------------------------------- C3 ------------------------------------ *)

\* C3: within one runMigrations call, for pending migrations A and B with
\* A.sequence < B.sequence (A's file name before B's), B's SQL is sent to the
\* remote call only after A's SQL was: the SQL calls of the run are, in
\* order, the first pending migrations in ascending sequence.
C3_AppliesInSequenceOrder ==
    \A p \in Procs :
        op[p].name = "run" =>
            LET sent == CallsOf(p, "sql")
                pend == loc[p].pending
            IN  /\ \A a, b \in 1..Len(pend) :
                      a < b => /\ pend[a].id < pend[b].id
                               /\ StrLess(pend[a].filename, pend[b].filename)
                /\ \A i, j \in sent :
                      i < j => StrLess(calls[p][i].file, calls[p][j].file)
                /\ \A j \in sent :
                      \A a \in 1..Len(pend) :
                          StrLess(pend[a].filename, calls[p][j].file)
                              => \E i \in sent : i < j /\ calls[p][i].file = pend[a].filename

\* A run has sent the SQL of three migrations.
C3_Witness ==
    \E p \in Procs :
        /\ InCall(p, "run", FALSE) /\ AtEnd(p) /\ result[p].success
        /\ Cardinality(CallsOf(p, "sql")) = 3

(* ------------------------------- C4 ------------------------------------ *)

\* One step keeps to the lifecycle of ledger rows: a row that appears is the
\* row of the migration a non-dry run is at, whose SQL call was the run's last
\* remote call and reported no error; a row that disappears is the row a
\* rollback selected, after its down SQL succeeded; no row changes in place.
LedgerLifecycleStep ==
    /\ \A r \in table' \ table :
          \E p \in Procs :
              /\ InCall(p, "run", FALSE)
              /\ pc[p] = "run_insert"
              /\ r = Row(nextId, loc[p].pending[loc[p].i].filename)
              /\ calls[p][Len(calls[p])] = Call("sql", r.filename, TRUE)
    /\ \A r \in table \ table' :
          \E p \in Procs :
              /\ InCall(p, "rollback", FALSE)
              /\ pc[p] = "rollback_delete"
              /\ r = loc[p].last
              /\ calls[p][Len(calls[p])] = Call("down", r.filename, TRUE)
    /\ \A r \in table', q \in table : r.id = q.id => r = q

\* C4: a ledger row is inserted only right after its migration's SQL was
\* executed without error in the same run; rows are only inserted by apply and
\* deleted by rollback, never modified in place.
C4_LedgerLifecycle == [][LedgerLifecycleStep]_vars

\* A run recorded one migration and then met the SQL error of the next: the
\* ledger holds the row of the first and none of the second.
C4_Witness ==
    \E p \in Procs :
        /\ InCall(p, "run", FALSE) /\ AtEnd(p)
        /\ \E i \in CallsOf(p, "sql") :
              /\ ~calls[p][i].ok
              /\ \A r \in table : r.filename # calls[p][i].file
        /\ \E r \in table \ pre[p] : TRUE

(* ------------------------------- C5 ------------------------------------ *)

\* C5 as stated: a dry run of runMigrations makes no remote call at all.
C5_DryRunMakesNoRemoteCall ==
    \A p \in Procs : InCall(p, "run", TRUE) => calls[p] = <<>>

\* C5, amended: the only remote calls of a dry run of runMigrations are the
\* CREATE TABLE IF NOT EXISTS of the ledger table and the SELECT of its rows;
\* it sends no migration SQL and no INSERT and leaves the rows as they were,
\* so that the real run that follows it finds pending exactly the definitions
\* that were pending before the dry run.
C5_DryRunSendsNoMigrationSql ==
    \A p \in Procs :
        /\ InCall(p, "run", TRUE) =>
              /\ \A i \in 1..Len(calls[p]) : calls[p][i].kind \in {"create", "select"}
              /\ table = pre[p]
        /\ (/\ InCall(p, "run", FALSE)
            /\ prev[p].name = "run" /\ prev[p].dryRun
            /\ pc[p] \in {"run_sql", "run_insert"})
           => loc[p].pending = PendingOver(prev[p].before)

\* A real run that follows a dry run with migrations pending is applying them.
C5_Witness ==
    \E p \in Procs :
        /\ InCall(p, "run", FALSE)
        /\ prev[p].name = "run" /\ prev[p].dryRun /\ prev[p].success
        /\ pc[p] = "run_insert"
        /\ Len(loc[p].pending) = 3

(* ------------------------------- C6 ------------------------------------ *)

\* C6: a dry run of runMigrations with pending migrations returns
\* success = true and lists every pending definition, in ascending sequence.
C6_DryRunListsPending ==
    \A p \in Procs :
        (/\ InCall(p, "run", TRUE) /\ AtEnd(p)
         /\ \E i \in CallsOf(p, "select") : calls[p][i].ok
         /\ result[p].kind = "result" /\ result[p].error # "ENOENT"
         /\ PendingOver(pre[p]) # <<>>)
        => /\ result[p].success
           /\ result[p].appliedMigrations = PendingOver(pre[p])

(* ------------------------------- C7 ------------------------------------ *)

\* C7: a rollback that found rows targets the row of the highest id, whatever
\* the sequence of its migration: that row's file gives the down SQL that is
\* executed, that row is the one deleted and the one returned.
C7_RollbackTargetsHighestId ==
    \A p \in Procs :
        (/\ op[p].name = "rollback"
         /\ \/ pc[p] \in {"rollback_down", "rollback_delete"}
            \/ AtEnd(p) /\ result[p].success /\ result[p].appliedMigrations # <<>>)
        => LET target == HighestId(pre[p])
           IN  /\ loc[p].last = target
               /\ \A i \in CallsOf(p, "down") \cup CallsOf(p, "delete") :
                     calls[p][i].file = target.filename
               /\ AtEnd(p) => /\ result[p].appliedMigrations = <<target>>
                              /\ table \in {pre[p], pre[p] \ {target}}
               /\ (\E i \in CallsOf(p, "delete") : calls[p][i].ok)
                     => table = pre[p] \ {target}

\* A rollback has deleted the row of the highest id while the ledger held a
\* row of a later migration (a higher sequence) with a lower id.
C7_Witness ==
    \E p \in Procs :
        /\ InCall(p, "rollback", FALSE) /\ AtEnd(p) /\ result[p].success
        /\ \E i \in CallsOf(p, "delete") : calls[p][i].ok
        /\ \E r \in table :
              /\ StrLess(loc[p].last.filename, r.filename)
              /\ r.id < loc[p].last.id
        /\ loc[p].last \notin table

(* ------------------------------- C8 ------------------------------------ *)

\* C8: when the down SQL of a non-dry-run rollback reports an error, the call
\* has ended with success = false and an error, has sent no DELETE, and the
\* ledger holds the rows it held when the call started.
C8_FailedDownLeavesLedger ==
    \A p \in Procs :
        (/\ InCall(p, "rollback", FALSE)
         /\ \E i \in CallsOf(p, "down") : ~calls[p][i].ok)
        => /\ AtEnd(p)
           /\ ~result[p].success
           /\ result[p].error # "none"
           /\ CallsOf(p, "delete") = {}
           /\ table = pre[p]

\* A rollback has ended on the error of its down SQL.
C8_Witness ==
    \E p \in Procs :
        /\ InCall(p, "rollback", FALSE) /\ AtEnd(p)
        /\ \E i \in CallsOf(p, "down") : ~calls[p][i].ok
        /\ table # {}

(* ------------------------------- C9 ------------------------------------ *)

\* The text has no "-- Down Migration" marker.
HasNoDownBlock(text) == \A i \in 1..Len(text) : text[i] # "marker"

\* The rollback read the rows, and the file of the last one has no down block.
LastHasNoDownBlock(p) ==
    /\ op[p].name = "rollback"
    /\ \E i \in CallsOf(p, "select") : calls[p][i].ok
    /\ pre[p] # {}
    /\ HighestId(pre[p]).filename \in DOMAIN fileText
    /\ HasNoDownBlock(fileText[HighestId(pre[p]).filename])

AfterFullApply(p) ==
    /\ prev[p].name = "run" /\ ~prev[p].dryRun /\ prev[p].success
    /\ prev[p].inserted >= 1
    /\ prev[p].inserted = Len(PendingOver(prev[p].before))
    /\ Cardinality(pre[p]) = Cardinality(prev[p].before) + prev[p].inserted
    /\ PendingOver(pre[p]) = <<>>

\* C10: after a successful runMigrations that applied all pending migrations,
\* one successful rollbackMigration leaves exactly the rows of before minus
\* the one inserted last by the apply.
C10_RoundTrip ==
    \A p \in Procs :
        (/\ InCall(p, "rollback", FALSE) /\ AtEnd(p) /\ result[p].success
         /\ AfterFullApply(p))
        => /\ Cardinality(table) = Cardinality(pre[p]) - 1
           /\ table = pre[p] \ {HighestId(pre[p])}
           /\ HighestId(pre[p]) \notin prev[p].before

(* ------------------------------- C11 ----------------------------------- *)

\* The call obtained its status: the SELECT reported no error and the
\* directory was read.
GotStatus(p) ==
    /\ \E i \in CallsOf(p, "select") : calls[p][i].ok
    /\ result[p].error # "ENOENT"

\* runMigrations found nothing pending and returned success with an empty
\* list, the ledger as it was (the first sentence of C11).
C11_NothingPendingIsSuccess ==
    \A p \in Procs :
        (/\ op[p].name = "run" /\ AtEnd(p) /\ GotStatus(p)
         /\ PendingOver(pre[p]) = <<>>)
        => /\ result[p].success
           /\ result[p].appliedMigrations = <<>>
           /\ table = pre[p]
           /\ CallsOf(p, "sql") = {} /\ CallsOf(p, "insert") = {}

\* C11: with no pending migrations runMigrations returns success = true with
\* an empty list and leaves the ledger unchanged; hence a runMigrations right
\* after a successful real run applies nothing and leaves the applied count
\* (the number of ledger rows) as it was.
C11_SecondRunAppliesNothing ==
    /\ C11_NothingPendingIsSuccess
    /\ \A p \in Procs :
          (/\ InCall(p, "run", FALSE) /\ AtEnd(p) /\ GotStatus(p)
           /\ prev[p].name = "run" /\ ~prev[p].dryRun /\ prev[p].success)
          => /\ result[p].success
             /\ result[p].appliedMigrations = <<>>
             /\ Cardinality(table) = Cardinality(pre[p])

(* ------------------------------- C12 ----------------------------------- *)

\* C12: when the ledger holds no rows, rollbackMigration returns
\* success = true with an empty list and has sent neither down SQL nor a DELETE.
C12_EmptyLedgerRollback ==
    \A p \in Procs :
        (/\ op[p].name = "rollback"
         /\ \E i \in CallsOf(p, "select") : calls[p][i].ok
         /\ pre[p] = {})
        => /\ AtEnd(p)
           /\ result[p].success
           /\ result[p].error = "none"
           /\ result[p].appliedMigrations = <<>>
           /\ CallsOf(p, "down") = {} /\ CallsOf(p, "delete") = {}
           /\ table = {}

\* A real rollback has returned from an empty ledger.
C12_Witness ==
    \E p \in Procs :
        /\ InCall(p, "rollback", FALSE) /\ AtEnd(p)
        /\ \E i \in CallsOf(p, "select") : calls[p][i].ok
        /\ pre[p] = {}

(* ------------------------------- C13 ----------------------------------- *)

\* The entries are the definitions of the .sql files of the directory, each
\* once, in ascending file name order, numbered by position.
EntriesAreTheDefinitions(ms) ==
    /\ {ms[i].filename : i \in 1..Len(ms)} = {f \in MigrationsDir : EndsWithSql(f)}
    /\ \A i, j \in 1..Len(ms) : i < j => StrLess(ms[i].filename, ms[j].filename)
    /\ \A i \in 1..Len(ms) : ms[i].id = i

\* C13: the status getMigrationStatus returns has applied <= total,
\* pending = total - applied >= 0, and as entries exactly the source
\* definitions in ascending sequence order.
C13_StatusCounts ==
    \A p \in Procs :
        (op[p].name = "status" /\ AtEnd(p) /\ result[p].kind = "status")
        => LET st == result[p].status
           IN  /\ st.applied <= st.total
               /\ st.pending = st.total - st.applied
               /\ st.pending >= 0
               /\ EntriesAreTheDefinitions(st.migrations)

(* ------------------------------- C14 ----------------------------------- *)

StatusReturned(p) ==
    op[p].name = "status" /\ AtEnd(p) /\ result[p].kind = "status"

\* C14: in the status getMigrationStatus returns, a definition carries an
\* appliedAt value if and only if the ledger holds a record with the
\* definition's file name; ids play no role.
C14_AppliedAtByFilename ==
    \A p \in Procs :
        StatusReturned(p)
        => LET ms == result[p].status.migrations
           IN  \A i \in 1..Len(ms) :
                  (ms[i].appliedAt # "undefined")
                  <=> (\E r \in pre[p] : r.filename = ms[i].filename)

\* A status where matching on ids would decide differently for an applied
\* and for an unapplied definition.
C14_Witness ==
    \E p \in Procs :
        /\ StatusReturned(p)
        /\ LET ms == result[p].status.migrations
           IN  /\ \E i \in 1..Len(ms) :
                     /\ ms[i].appliedAt # "undefined"
                     /\ \A r \in pre[p] : r.id # ms[i].id
               /\ \E i \in 1..Len(ms) :
                     /\ ms[i].appliedAt = "undefined"
                     /\ \E r \in pre[p] : r.id = ms[i].id

(* ------------------------------- C15 ----------------------------------- *)

\* C15: none of getMigrationStatus, runMigrations and rollbackMigration
\* throws to its caller; a filesystem error, a remote error while listing the
\* ledger and a missing down block are returned as a structured result.
C15_NothingThrown ==
    \A p \in Procs : result[p].kind # "threw"

\* The part of C15 that holds: runMigrations and rollbackMigration return a
\* result whatever happens.
C15_RunAndRollbackReturnResults ==
    \A p \in Procs :
        (op[p].name \in {"run", "rollback"} /\ AtEnd(p)) => result[p].kind = "result"

(* ------------------------------- C16 ----------------------------------- *)

\* In a run of p that is not a dry run, every remote call of one of the kinds
\* that reported an error is the last call of the run, which ended with
\* success = false and a message, without reporting the call's migration.
RemoteErrorFailsRun(p, kinds) ==
    InCall(p, "run", FALSE)
    => \A i \in 1..Len(calls[p]) :
          (calls[p][i].kind \in kinds /\ ~calls[p][i].ok)
          => /\ i = Len(calls[p])
             /\ AtEnd(p)
             /\ result[p].kind = "result"
             /\ ~result[p].success
             /\ result[p].error # "none"
             /\ \A j \in 1..Len(result[p].appliedMigrations) :
                   result[p].appliedMigrations[j].filename # calls[p][i].file

\* C16: in runMigrations an error reported by a remote call that lists the
\* ledger, executes a migration's SQL or inserts its ledger record ends the
\* run with success = false and the error; the migration is not reported
\* applied and no later migration is attempted.
C16_RemoteErrorFailsRun ==
    \A p \in Procs : RemoteErrorFailsRun(p, {"select", "sql", "insert"})

\* The part of C16 that holds: the errors of the SELECT and of a migration's
\* SQL end the run.
C16_SelectAndSqlErrorsFailRun ==
    \A p \in Procs : RemoteErrorFailsRun(p, {"select", "sql"})

(* ------------------------- two concurrent callers ---------------------- *)

\* Two operators (or two deploy jobs) call runMigrations against the same
\* database, one call for each of them or two calls in a row by one;
\* nothing in runMigrations takes a lock.
InitConcurrent ==
    /\ InitCommon
    /\ fileText = [f \in SqlFiles |-> WithDown]
    /\ callsLeft = Cardinality(Procs)
    /\ pc = [p \in Procs |-> "idle"]

NextConcurrent ==
    \E p \in Procs :
        \/ CallRunMigrations(p)
        \/ EnsureMigrationsTable(p)
        \/ GetMigrationStatus(p)
        \/ ExecuteSqlFile(p)
        \/ RecordMigration(p)
        \/ Return(p)

SpecConcurrent == InitConcurrent /\ [][NextConcurrent]_vars

(* ------------------------------- C17 ----------------------------------- *)

\* The run of p executed the SQL of file f and inserted its ledger row.
AppliedBy(p, f) ==
    /\ InCall(p, "run", FALSE)
    /\ \E i \in CallsOf(p, "sql") : calls[p][i].file = f /\ calls[p][i].ok
    /\ \E i \in CallsOf(p, "insert") : calls[p][i].file = f /\ calls[p][i].ok

\* The run of p found f among the pending migrations.
ObservedPending(p, f) ==
    \E i \in 1..Len(loc[p].pending) : loc[p].pending[i].filename = f

RowsOf(f) == {r \in table : r.filename = f}

\* C17: two interleaved runMigrations calls are not kept apart: when both
\* have executed the SQL of the same migration and inserted its record, the
\* ledger holds two records with that file name.
C17_NoMutualExclusion ==
    \A f \in SqlFiles :
        (AppliedBy("p1", f) /\ AppliedBy("p2", f)) => Cardinality(RowsOf(f)) >= 2

\* Both runs started from the same ledger, observed the same migration as
\* pending, executed its SQL, and the ledger has two records of it.
C17_Witness ==
    \E f \in SqlFiles :
        /\ pre["p1"] = pre["p2"]
        /\ RowsOf(f) \cap pre["p1"] = {}
        /\ ObservedPending("p1", f) /\ ObservedPending("p2", f)
        /\ AppliedBy("p1", f) /\ AppliedBy("p2", f)
        /\ Cardinality(RowsOf(f)) = 2

(* ------------------------- the command line ---------------------------- *)

\* main, the cases 'up', 'down' and 'dry-run': given the coordinator's
\* result, the exit status of the process and the counts it prints. On
\* success it prints appliedMigrations.length and ends normally; otherwise it
\* prints the error's message only and calls process.exit(1).
Main(res) ==
    IF res.kind = "result" /\ res.success
    THEN [exit |-> 0, counts |-> <<Len(res.appliedMigrations)>>, message |-> "none"]
    ELSE [exit |-> 1, counts |-> <<>>, message |-> res.error]

(* ------------------------------- C18 ----------------------------------- *)

\* The call of p is one the commands up, down and dry-run make, and it has
\* returned.
CommandDone(p) ==
    op[p].name \in {"run", "rollback"} /\ AtEnd(p)

\* C18: the commands up, down and dry-run exit non-zero exactly when the
\* result has success = false, and print the count of migrations applied or
\* rolled back on failure as well as on success.
C18_ExitStatusAndCount ==
    \A p \in Procs :
        CommandDone(p)
        => /\ (Main(result[p]).exit # 0) <=> ~result[p].success
           /\ Main(result[p]).counts = <<Len(result[p].appliedMigrations)>>

\* The part of C18 that holds: the exit status follows the success flag, and
\* with nothing pending or nothing applied the command exits zero.
C18_ExitStatus ==
    \A p \in Procs :
        CommandDone(p)
        => /\ (Main(result[p]).exit # 0) <=> ~result[p].success
           /\ (op[p].name = "run" /\ GotStatus(p) /\ PendingOver(pre[p]) = <<>>)
              => Main(result[p]).exit = 0
           /\ (op[p].name = "rollback" /\ pre[p] = {}
               /\ \E i \in CallsOf(p, "select") : calls[p][i].ok)
              => Main(result[p]).exit = 0

(* --------------------------- rate limiter ------------------------------ *)

DEFAULT_MAX_ATTEMPTS == 5

DEFAULT_WINDOW_MS == 15 * 60 * 1000

\* The limit the tests pass in place of the default.
CustomMaxAttempts == 2

\* How often the clock may be moved in a behaviour.
MaxAdvances == 2

\* The keys the callers use (an IP address, 'login:' + email).
Keys == {"test-ip", "different-ip"}

MaxAttemptsChoices == {DEFAULT_MAX_ATTEMPTS, CustomMaxAttempts}

WindowChoices == {DEFAULT_WINDOW_MS}

\* Map.prototype.set
MapSet(m, key, v) == [k \in DOMAIN m \cup {key} |-> IF k = key THEN v ELSE m[k]]

\* A mutant of MapDelete: Map.prototype.clear.
MapClear(m, key) == EmptyMap

\* Map.prototype.delete
MapDelete(m, key) == [k \in DOMAIN m \ {key} |-> m[k]]

\* !attempt || now > attempt.resetAt
NoAttemptOrExpired(attempts, key, t) ==
    key \notin DOMAIN attempts \/ t > attempts[key].resetAt

\* A mutant of UnderLimit: one attempt more is let through.
UnderLimitInclusive(count, maxAttempts) == count <= maxAttempts

\* attempt.count < maxAttempts
UnderLimit(count, maxAttempts) == count < maxAttempts

\* What checkRateLimit returns.
Allowed(attempts, key, maxAttempts, t) ==
    \/ NoAttemptOrExpired(attempts, key, t)
    \/ UnderLimit(attempts[key].count, maxAttempts)

\* A mutant of AfterCheck: a denied call starts the window of the key anew.
AfterCheckExtending(attempts, key, maxAttempts, windowMs, t) ==
    IF NoAttemptOrExpired(attempts, key, t)
    THEN MapSet(attempts, key, [count |-> 1, resetAt |-> t + windowMs])
    ELSE IF UnderLimit(attempts[key].count, maxAttempts)
    THEN MapSet(attempts, key, [count |-> attempts[key].count + 1,
                                resetAt |-> attempts[key].resetAt])
    ELSE MapSet(attempts, key, [count |-> attempts[key].count,
                                resetAt |-> t + windowMs])

\* The Map after checkRateLimit.
AfterCheck(attempts, key, maxAttempts, windowMs, t) ==
    IF NoAttemptOrExpired(attempts, key, t)
    THEN MapSet(attempts, key, [count |-> 1, resetAt |-> t + windowMs])
    ELSE IF UnderLimit(attempts[key].count, maxAttempts)
    THEN MapSet(attempts, key, [count |-> attempts[key].count + 1,
                                resetAt |-> attempts[key].resetAt])
    ELSE attempts

Max(a, b) == IF a >= b THEN a ELSE b

\* A mutant of RemainingAttempts: the difference is not kept at 0 or more.
RemainingAttemptsUnclamped(attempts, key, maxAttempts, t) ==
    IF NoAttemptOrExpired(attempts, key, t) THEN maxAttempts
    ELSE maxAttempts - attempts[key].count

\* What getRemainingAttempts returns.
RemainingAttempts(attempts, key, maxAttempts, t) ==
    IF NoAttemptOrExpired(attempts, key, t) THEN maxAttempts
    ELSE Max(0, maxAttempts - attempts[key].count)

\* The history of a key: its window runs from the first call of
\* checkRateLimit that found none running for windowMs of that call; n counts
\* the calls in it (no further than one past the largest limit), allowed or
\* not, counted those of them that returned true, and maxAttempts is their
\* limit, 0 once they differ.
WindowRuns(key, t) ==
    key \in DOMAIN window /\ t <= window[key].start + window[key].windowMs

CountCall(key, maxAttempts, windowMs, t) ==
    IF WindowRuns(key, t)
    THEN MapSet(window, key,
                [window[key] EXCEPT
                    !.n = IF @ > DEFAULT_MAX_ATTEMPTS THEN @ ELSE @ + 1,
                    !.maxAttempts = IF @ = maxAttempts THEN @ ELSE 0,
                    !.counted = IF Allowed(loginAttempts, key, maxAttempts, t)
                                THEN @ + 1 ELSE @])
    ELSE MapSet(window, key, [start |-> t, windowMs |-> windowMs, n |-> 1,
                              maxAttempts |-> maxAttempts,
                              counted |-> IF Allowed(loginAttempts, key, maxAttempts, t)
                                          THEN 1 ELSE 0])

\* The calls of checkRateLimit counted in the window of the key so far.
Seen(key) == IF key \in DOMAIN window THEN window[key].n ELSE 0

\* checkRateLimit(key, maxAttempts, windowMs)
CheckRateLimit(key, maxAttempts, windowMs) ==
    /\ loginAttempts' = AfterCheck(loginAttempts, key, maxAttempts, windowMs, now)
    /\ ret' = [fn |-> "checkRateLimit", key |-> key, maxAttempts |-> maxAttempts,
               value |-> Allowed(loginAttempts, key, maxAttempts, now),
               before |-> loginAttempts, seen |-> Seen(key),
               at |-> now]
    /\ window' = CountCall(key, maxAttempts, windowMs, now)
    /\ UNCHANGED <<now, advances>>
    /\ UNCHANGED migrationVars
    /\ UNCHANGED webVars

\* resetRateLimit(key)
ResetRateLimit(key) ==
    /\ loginAttempts' = MapDelete(loginAttempts, key)
    /\ ret' = [fn |-> "resetRateLimit", key |-> key, maxAttempts |-> 0,
               value |-> 0, before |-> loginAttempts, seen |-> Seen(key),
               at |-> now]
    /\ window' = [k \in DOMAIN window \ {key} |-> window[k]]
    /\ UNCHANGED <<now, advances>>
    /\ UNCHANGED migrationVars
    /\ UNCHANGED webVars

\* getRemainingAttempts(key, maxAttempts)
GetRemainingAttempts(key, maxAttempts) ==
    /\ ret' = [fn |-> "getRemainingAttempts", key |-> key,
               maxAttempts |-> maxAttempts,
               value |-> RemainingAttempts(loginAttempts, key, maxAttempts, now),
               before |-> loginAttempts, seen |-> Seen(key),
               at |-> now]
    /\ UNCHANGED <<loginAttempts, window, now, advances>>
    /\ UNCHANGED migrationVars
    /\ UNCHANGED webVars

\* Time passes between two calls: a millisecond, or the default window.
Advance ==
    /\ advances < MaxAdvances
    /\ advances' = advances + 1
    /\ \E d \in {1, DEFAULT_WINDOW_MS} : now' = now + d
    /\ UNCHANGED <<loginAttempts, ret, window>>
    /\ UNCHANGED migrationVars
    /\ UNCHANGED webVars

\* The coordinator is not in use while the rate limiter is exercised.
InitRateLimit ==
    /\ InitCommon
    /\ table = {}
    /\ ~tableExists
    /\ fileText = [f \in SqlFiles |-> WithDown]
    /\ callsLeft = 0
    /\ pc = [p \in Procs |-> "off"]

NextRateLimit ==
    \/ \E key \in Keys, maxAttempts \in MaxAttemptsChoices, windowMs \in WindowChoices :
          CheckRateLimit(key, maxAttempts, windowMs)
    \/ \E key \in Keys : ResetRateLimit(key)
    \/ \E key \in Keys, maxAttempts \in MaxAttemptsChoices :
          GetRemainingAttempts(key, maxAttempts)
    \/ Advance

SpecRateLimit == InitRateLimit /\ [][NextRateLimit]_vars


(* ------------------------------- C19 ----------------------------------- *)

\* C19: while the calls of checkRateLimit for a key in one window all pass
\* the same maxAttempts, the call returns true if it is one of the first
\* maxAttempts calls of the window and false if it is a later one; a window
\* ends when it expires or when resetRateLimit is called for the key.
C19_FirstMaxAttemptsAllowed ==
    (ret.fn = "checkRateLimit" /\ window[ret.key].maxAttempts = ret.maxAttempts)
    => (ret.value <=> window[ret.key].n <= ret.maxAttempts)

\* With the default limit of 5 the sixth call of a window is blocked.
C19_Witness ==
    /\ ret.fn = "checkRateLimit"
    /\ window[ret.key].maxAttempts = DEFAULT_MAX_ATTEMPTS
    /\ ret.maxAttempts = DEFAULT_MAX_ATTEMPTS
    /\ window[ret.key].n = DEFAULT_MAX_ATTEMPTS + 1
    /\ ~ret.value

(* ------------------------------- C20 ----------------------------------- *)

\* The next n calls of checkRateLimit(key, maxAttempts) all return true.
RECURSIVE AllowedTimes(_, _, _, _)
AllowedTimes(attempts, key, maxAttempts, n) ==
    \/ n = 0
    \/ /\ Allowed(attempts, key, maxAttempts, now)
       /\ AllowedTimes(AfterCheck(attempts, key, maxAttempts, DEFAULT_WINDOW_MS, now),
                       key, maxAttempts, n - 1)

\* C20: after resetRateLimit(key) the key is as one without history: the
\* next maxAttempts calls of checkRateLimit(key) return true and
\* getRemainingAttempts(key) returns maxAttempts; the entries of the other
\* keys are as they were.
C20_ResetForgetsKey ==
    ret.fn = "resetRateLimit"
    => /\ \A maxAttempts \in MaxAttemptsChoices :
             /\ RemainingAttempts(loginAttempts, ret.key, maxAttempts, now) = maxAttempts
             /\ AllowedTimes(loginAttempts, ret.key, maxAttempts, maxAttempts)
       /\ \A k \in Keys \ {ret.key} :
             /\ k \in DOMAIN loginAttempts <=> k \in DOMAIN ret.before
             /\ k \in DOMAIN loginAttempts => loginAttempts[k] = ret.before[k]

\* A reset of a key that had used up its attempts and had calls blocked,
\* while another key has an entry.
C20_Witness ==
    /\ ret.fn = "resetRateLimit"
    /\ ret.key \in DOMAIN ret.before
    /\ ret.before[ret.key].count = DEFAULT_MAX_ATTEMPTS
    /\ ret.seen > DEFAULT_MAX_ATTEMPTS
    /\ now <= ret.before[ret.key].resetAt
    /\ \E k \in Keys \ {ret.key} : k \in DOMAIN loginAttempts


(* ------------------------------- C21 ----------------------------------- *)

\* C21: getRemainingAttempts(key, maxAttempts) returns maxAttempts for a key
\* without history or with an expired window, and otherwise maxAttempts less
\* the calls of checkRateLimit counted in the key's window, but not less
\* than 0; it is 0 exactly when the next checkRateLimit would return false,
\* and the call leaves the stored entries as they were.
C21_RemainingAttempts ==
    ret.fn = "getRemainingAttempts"
    => /\ ret.value =
             IF WindowRuns(ret.key, ret.at)
             THEN Max(0, ret.maxAttempts - window[ret.key].counted)
             ELSE ret.maxAttempts
       /\ ret.value >= 0
       /\ ret.value = 0 <=> ~Allowed(loginAttempts, ret.key, ret.maxAttempts, ret.at)
       /\ loginAttempts = ret.before

\* Nothing remains for a key that had calls blocked in its running window,
\* asked with a limit below the calls counted.
C21_Witness ==
    /\ ret.fn = "getRemainingAttempts"
    /\ WindowRuns(ret.key, ret.at)
    /\ window[ret.key].n > window[ret.key].counted
    /\ window[ret.key].counted > ret.maxAttempts
    /\ ret.value = 0


(* ----------------------- route protection middleware ------------------- *)

\* Paths and routes are strings, written as the sequences of their characters.
PathRoot == <<"/">>

PathLogin == <<"/", "l", "o", "g", "i", "n">>

PathRegister == <<"/", "r", "e", "g", "i", "s", "t", "e", "r">>

PathResetPassword == <<"/", "r", "e", "s", "e", "t", "-", "p", "a", "s", "s", "w", "o", "r", "d">>

PathVerifyEmail == <<"/", "v", "e", "r", "i", "f", "y", "-", "e", "m", "a", "i", "l">>

PathDashboard == <<"/", "d", "a", "s", "h", "b", "o", "a", "r", "d">>

PathLoginSlash == <<"/", "l", "o", "g", "i", "n", "/">>

PathLoginSso == <<"/", "l", "o", "g", "i", "n", "/", "s", "s", "o">>

PathLoginx == <<"/", "l", "o", "g", "i", "n", "x">>

PathSettings == <<"/", "s", "e", "t", "t", "i", "n", "g", "s">>

PathSignin == <<"/", "s", "i", "g", "n", "i", "n">>

\* The pathnames of the requests.
Paths == {PathRoot, PathLogin, PathRegister, PathResetPassword, PathVerifyEmail, PathDashboard,
          PathLoginSlash, PathLoginSso, PathLoginx, PathSettings, PathSignin}

\* The default of options.publicRoutes, and what an application sets instead.
DefaultPublicRoutes == {PathLogin, PathRegister, PathResetPassword, PathVerifyEmail}

PublicRoutesChoices == {DefaultPublicRoutes, {PathRoot, PathSignin}, {}}

\* The default of options.authPage, and what an application sets instead.
AuthPageChoices == {PathLogin, PathSignin}

\* The default of options.defaultProtectedRoute, and what an application sets
\* instead.
DefaultProtectedRouteChoices == {PathDashboard, PathSettings}

\* String.prototype.startsWith
StartsWith(s, prefix) ==
    Len(s) >= Len(prefix) /\ SubSeq(s, 1, Len(prefix)) = prefix

\* A mutant of IsPublicRoute: the prefix is the route without the slash.
IsPublicRouteByPrefix(publicRoutes, path) ==
    \E route \in publicRoutes : path = route \/ StartsWith(path, route)

\* publicRoutes.some(route => path === route || path.startsWith(`${route}/`))
IsPublicRoute(publicRoutes, path) ==
    \E route \in publicRoutes : path = route \/ StartsWith(path, Append(route, "/"))

\* The function authMiddleware(options) returns, applied to a request.
Middleware(req) ==
    LET isPublicRoute == IsPublicRoute(req.publicRoutes, req.path)
    IN  IF ~req.session /\ ~isPublicRoute
        THEN [kind |-> "redirect", to |-> req.authPage, redirectTo |-> req.path]
        ELSE IF req.session /\ isPublicRoute
        THEN [kind |-> "redirect", to |-> req.defaultProtectedRoute, redirectTo |-> <<>>]
        ELSE [kind |-> "next", to |-> <<>>, redirectTo |-> <<>>]

\* A request arrives, with or without a session in its cookies.
HandleRequest(req) ==
    /\ request' = req
    /\ response' = Middleware(req)
    /\ UNCHANGED migrationVars
    /\ UNCHANGED securityVars
    /\ UNCHANGED <<providerVars, sessionVars>>

Requests ==
    [session : BOOLEAN, path : Paths, publicRoutes : PublicRoutesChoices,
     authPage : AuthPageChoices, defaultProtectedRoute : DefaultProtectedRouteChoices]

\* The coordinator and the rate limiter are not in use while requests are
\* served.
InitMiddleware ==
    /\ InitCommon
    /\ table = {}
    /\ ~tableExists
    /\ fileText = [f \in SqlFiles |-> WithDown]
    /\ callsLeft = 0
    /\ pc = [p \in Procs |-> "off"]

NextMiddleware == \E req \in Requests : HandleRequest(req)

SpecMiddleware == InitMiddleware /\ [][NextMiddleware]_vars

(* ------------------------------- C22 ----------------------------------- *)

\* The path is a public route or lies under one.
UnderPublicRoute(req) ==
    \E route \in req.publicRoutes :
        \/ req.path = route
        \/ /\ Len(req.path) > Len(route)
           /\ \A i \in 1..Len(route) : req.path[i] = route[i]
           /\ req.path[Len(route) + 1] = "/"

\* C22: a request without session for a path that is not public is
\* redirected to authPage with redirectTo set to the path and never passed
\* through; a request with a session for a public path is redirected to
\* defaultProtectedRoute; every other request passes through.
C22_RouteProtection ==
    response.kind # "none"
    => /\ (~request.session /\ ~UnderPublicRoute(request))
          => /\ response.kind = "redirect"
             /\ response.to = request.authPage
             /\ response.redirectTo = request.path
       /\ (request.session /\ UnderPublicRoute(request))
          => /\ response.kind = "redirect"
             /\ response.to = request.defaultProtectedRoute
       /\ (request.session <=> ~UnderPublicRoute(request))
          => response.kind = "next"

\* A request without session for /loginx, which starts with the public route
\* /login but is not under it, was redirected to the login page.
C22_Witness ==
    /\ response.kind = "redirect"
    /\ ~request.session
    /\ request.path = PathLoginx
    /\ PathLogin \in request.publicRoutes
    /\ response.to = request.authPage
    /\ response.redirectTo = PathLoginx


(* ------------------------------- C23 ----------------------------------- *)

\* C23: in a runMigrations call that is not a dry run the remote calls come
\* one after the other, migration by migration: the ledger row of a
\* migration is inserted right after its SQL call has completed, and the SQL
\* of the next migration is sent only after that insert.
C23_SequentialPerMigration ==
    \A p \in Procs :
        InCall(p, "run", FALSE)
        => LET cs == calls[p]
           IN  /\ \A i \in 1..Len(cs) :
                     cs[i].kind = "insert"
                     => /\ i > 1
                        /\ cs[i-1].kind = "sql"
                        /\ cs[i-1].ok
                        /\ cs[i-1].file = cs[i].file
               /\ \A i \in 1..Len(cs) :
                     (cs[i].kind = "sql" /\ i < Len(cs))
                     => /\ cs[i].ok
                        /\ cs[i+1].kind = "insert"
                        /\ cs[i+1].file = cs[i].file
               /\ (Len(cs) > 0 /\ cs[Len(cs)].kind = "sql" /\ cs[Len(cs)].ok)
                  => pc[p] = "run_insert"
               /\ pc[p] = "run_insert"
                  => (Len(cs) > 0 /\ cs[Len(cs)].kind = "sql" /\ cs[Len(cs)].ok)

\* A run that has applied two migrations: SQL, row, SQL, row.
C23_Witness ==
    \E p \in Procs :
        /\ InCall(p, "run", FALSE)
        /\ \E i \in 1..Len(calls[p]) :
              /\ i + 3 <= Len(calls[p])
              /\ calls[p][i].kind = "sql"
              /\ calls[p][i+1].kind = "insert"
              /\ calls[p][i+2].kind = "sql"
              /\ calls[p][i+3].kind = "insert"
              /\ calls[p][i].file # calls[p][i+2].file


(* ------------------------------- C24 ----------------------------------- *)

\* The text has a down block: the marker, white space, a comment that opens
\* and, before it closes, a DROP statement.
HasDownBlock(text) ==
    \E i, j, d, c \in 1..Len(text) :
        /\ i + 1 < j /\ j < d /\ d < c
        /\ text[i] = "marker"
        /\ \A k \in (i + 1)..(j - 1) : text[k] = "ws"
        /\ text[j] = "open"
        /\ text[d] = "drop"
        /\ text[c] = "close"

\* A dry-run rollback read the rows, and the file of the last one has a down
\* block.
DryRollbackOfLast(p) ==
    /\ InCall(p, "rollback", TRUE)
    /\ \E i \in CallsOf(p, "select") : calls[p][i].ok
    /\ pre[p] # {}
    /\ HighestId(pre[p]).filename \in DOMAIN fileText
    /\ HasDownBlock(fileText[HighestId(pre[p]).filename])

C25_ReleasedByTime ==
    /\ (/\ ret.fn = "checkRateLimit"
        /\ ret.key \in DOMAIN ret.before
        /\ ret.at > ret.before[ret.key].resetAt)
       => /\ ret.value
          /\ loginAttempts[ret.key].count = 1
          /\ loginAttempts[ret.key].resetAt > ret.at
          /\ loginAttempts[ret.key].resetAt = window[ret.key].start + window[ret.key].windowMs
          /\ window[ret.key].start = ret.at
    /\ (ret.fn = "checkRateLimit" /\ ~ret.value) => loginAttempts = ret.before
    /\ \A k \in DOMAIN loginAttempts :
          /\ k \in DOMAIN window
          /\ loginAttempts[k].resetAt = window[k].start + window[k].windowMs

\* A key that had used up the default limit and had calls denied is let
\* through again once its resetAt has passed.
C25_Witness ==
    /\ ret.fn = "checkRateLimit"
    /\ ret.key \in DOMAIN ret.before
    /\ ret.before[ret.key].count = DEFAULT_MAX_ATTEMPTS
    /\ ret.seen > DEFAULT_MAX_ATTEMPTS
    /\ ret.at > ret.before[ret.key].resetAt
    /\ ret.value
    /\ loginAttempts[ret.key].count = 1


(* ------------------- a ledger that drifted from the source ------------- *)

\* Ledgers with up to one row more than the directory has migration files,
\* some of the rows for a file since removed or twice for one file.
DriftedLedgers ==
    UNION {[1..n -> SqlFiles \cup {Orphan}] : n \in 0..(Cardinality(SqlFiles) + 1)}

\* One caller runs the migrations against such a ledger.
InitDrifted ==
    /\ InitSecurity
    /\ InitWeb
    /\ InitLedger(DriftedLedgers)
    /\ InitCallers
    /\ fileText = [f \in SqlFiles |-> WithDown]
    /\ callsLeft = MaxCalls
    /\ pc = [p \in Procs |-> IF p = "p1" THEN "idle" ELSE "off"]

SpecDrifted == InitDrifted /\ [][NextConcurrent]_vars

(* ------------------------------- C26 ----------------------------------- *)

\* C26: after a successful runMigrations that is not a dry run, whatever the
\* ledger held before, every migration file of the directory has a ledger
\* record with its file name (here even for the runs none of whose INSERT
\* calls reported an error).
C26_EveryDefinitionRecorded ==
    \A p \in Procs :
        (/\ InCall(p, "run", FALSE) /\ AtEnd(p) /\ result[p].success
         /\ \A i \in CallsOf(p, "insert") : calls[p][i].ok)
        => \A f \in SqlFiles : \E r \in table : r.filename = f

\* The part of C26 that holds: when the rows are not as many as the files,
\* every definition without a record is applied.
C26_AppliedUnlessCountsAgree ==
    \A p \in Procs :
        (/\ InCall(p, "run", FALSE) /\ AtEnd(p) /\ result[p].success
         /\ \A i \in CallsOf(p, "insert") : calls[p][i].ok
         /\ Cardinality(pre[p]) # Cardinality(SqlFiles))
        => \A f \in SqlFiles : \E r \in table : r.filename = f


(* ------------------------------- C27 ----------------------------------- *)

\* C27: a rollbackMigration that is not a dry run returns success with the
\* rolled-back record only if that record has been removed from the ledger;
\* when the DELETE reports an error the result is not a success.
C27_SuccessMeansDeleted ==
    \A p \in Procs :
        (/\ InCall(p, "rollback", FALSE) /\ AtEnd(p)
         /\ result[p].success /\ result[p].appliedMigrations # <<>>)
        => /\ result[p].appliedMigrations[1] \notin table
           /\ \A i \in CallsOf(p, "delete") : calls[p][i].ok


(* ---------------------- starting from an empty ledger ------------------ *)

\* One caller, and a database where no migration has been recorded yet.
InitEmptyLedger ==
    /\ Init
    /\ table = {}

SpecEmptyLedger == InitEmptyLedger /\ [][Next]_vars

(* ------------------------------- C28 ----------------------------------- *)

\* C28: with one caller making one call after the other, starting from an
\* empty ledger, no two ledger records have the same file name, whichever
\* remote calls fail.
C28_NoDuplicateFilenames ==
    \A r, q \in table : r.filename = q.filename => r = q

\* A second run has recorded a migration that the run before it had executed
\* but, its INSERT failing, not recorded.
C28_Witness ==
    \E p \in Procs :
        /\ InCall(p, "run", FALSE) /\ AtEnd(p)
        /\ prev[p].name = "run" /\ ~prev[p].dryRun /\ prev[p].success
        /\ prev[p].before = {}
        /\ pre[p] # {}
        /\ \E i \in CallsOf(p, "insert") : calls[p][i].ok


(* ------------------------------- C29 ----------------------------------- *)

\* The limit of logins where config.rateLimit.max gives none (or 0).
ProviderDefaultMax == 5

\* config?.rateLimit?.max || 5
LoginMaxAttempts == IF provider.max = 0 THEN ProviderDefaultMax ELSE provider.max

\* config?.rateLimit?.windowMs || 15 * 60 * 1000
LoginWindowMs == IF provider.windowMs = 0 THEN 15 * 60 * 1000 ELSE provider.windowMs

\* A login that resets the key whatever signIn answered.
AfterSignInAlwaysReset(attempts, key, ok) == MapDelete(attempts, key)

\* The Map after signIn has answered: resetRateLimit(rateLimitKey) after a
\* session was returned, nothing when signIn threw.
AfterSignIn(attempts, key, ok) ==
    IF ok THEN MapDelete(attempts, key) ELSE attempts

\* The effect of the mount: the client is created when the URL and the key
\* are configured, and config.rateLimit.max is what the application gave.
MountProvider(configured, max) ==
    /\ ~provider.mounted
    /\ provider' = [mounted |-> TRUE, supabase |-> configured, max |-> max,
                    windowMs |-> 0]
    /\ UNCHANGED <<login, failures>>
    /\ UNCHANGED migrationVars
    /\ UNCHANGED securityVars
    /\ UNCHANGED <<middlewareVars, sessionVars>>

\* login(email, password) up to its await of AuthClient.signIn: it throws
\* without a client, throws when checkRateLimit refuses, and calls signIn
\* otherwise.
CallLogin(email) ==
    LET key == RateLimitKey(email)
        allowed == Allowed(loginAttempts, key, LoginMaxAttempts, now)
        after == AfterCheck(loginAttempts, key, LoginMaxAttempts, LoginWindowMs, now)
    IN  /\ login.pc \in {"idle", "returned", "threw"}
        /\ IF ~provider.supabase
           THEN /\ login' = [NoLogin EXCEPT !.pc = "threw", !.email = email,
                                            !.error = "Supabase client not initialized"]
                /\ UNCHANGED failures
                /\ UNCHANGED securityVars
           ELSE /\ loginAttempts' = after
                /\ ret' = [fn |-> "checkRateLimit", key |-> key,
                           maxAttempts |-> LoginMaxAttempts, value |-> allowed,
                           before |-> loginAttempts, seen |-> Seen(key), at |-> now]
                /\ window' = CountCall(key, LoginMaxAttempts, LoginWindowMs, now)
                /\ failures' = IF WindowRuns(key, now) /\ key \in DOMAIN failures
                               THEN failures ELSE MapSet(failures, key, 0)
                /\ login' = [pc |-> IF allowed THEN "signIn" ELSE "threw",
                             email |-> email,
                             checked |-> TRUE,
                             allowed |-> allowed,
                             signIn |-> allowed,
                             error |-> IF allowed THEN "none"
                                       ELSE "Too many login attempts. Please try again later.",
                             limited |-> /\ WindowRuns(key, now)
                                         /\ key \in DOMAIN failures
                                         /\ failures[key] >= LoginMaxAttempts,
                             entry |-> after[key]]
                /\ UNCHANGED <<now, advances>>
        /\ UNCHANGED provider
        /\ UNCHANGED migrationVars
        /\ UNCHANGED <<middlewareVars, sessionVars>>

\* AuthClient.signIn answers: with a session, and login resets the key and
\* returns it, or with an error, which login throws on.
SignIn(ok) ==
    LET key == RateLimitKey(login.email)
    IN  /\ login.pc = "signIn"
        /\ loginAttempts' = AfterSignIn(loginAttempts, key, ok)
        /\ IF ok
           THEN /\ ret' = [fn |-> "resetRateLimit", key |-> key, maxAttempts |-> 0,
                           value |-> 0, before |-> loginAttempts, seen |-> Seen(key),
                           at |-> now]
                /\ window' = [k \in DOMAIN window \ {key} |-> window[k]]
                /\ failures' = [k \in DOMAIN failures \ {key} |-> failures[k]]
           ELSE /\ failures' = MapSet(failures, key,
                                      IF key \in DOMAIN failures
                                      THEN failures[key] + 1 ELSE 1)
                /\ UNCHANGED <<ret, window>>
        /\ login' = [login EXCEPT !.pc = IF ok THEN "returned" ELSE "threw",
                                  !.error = IF ok THEN "none" ELSE "signIn error"]
        /\ UNCHANGED <<now, advances>>
        /\ UNCHANGED provider
        /\ UNCHANGED migrationVars
        /\ UNCHANGED <<middlewareVars, sessionVars>>

\* The coordinator is not in use while users log in.
InitLogin ==
    /\ InitCommon
    /\ table = {}
    /\ ~tableExists
    /\ fileText = [f \in SqlFiles |-> WithDown]
    /\ callsLeft = 0
    /\ pc = [p \in Procs |-> "off"]

NextLogin ==
    \/ \E configured \in BOOLEAN, max \in {0, CustomMaxAttempts} :
          MountProvider(configured, max)
    \/ \E email \in Emails : CallLogin(email)
    \/ \E ok \in BOOLEAN : SignIn(ok)
    \/ Advance

SpecLogin == InitLogin /\ [][NextLogin]_vars

MaxTokens == 3

\* The tokens a caller may pass: 0 for none (undefined or ''), or one of the
\* tokens that can be generated.
TokenChoices == 0..MaxTokens

\* generateCsrfToken(): 32 random bytes in hex; two draws are taken to
\* differ, the n-th token of the provider is written n.
GenerateCsrfToken == sessionProvider.generated + 1

\* validateCsrfToken(token, storedToken)
ValidateCsrfToken(token, storedToken) == token = storedToken

\* The check at the head of revokeSession: the call goes on to the update
\* unless CSRF is enabled, a token was passed and it is not the current one.
PassesCsrfCheck(token) ==
    ~(/\ sessionProvider.enableCsrf
      /\ token # 0
      /\ ~ValidateCsrfToken(token, sessionProvider.csrfToken))

\* The provider is mounted: with enableCsrf the effect stores a first token.
MountSessionProvider(enableCsrf) ==
    /\ ~sessionProvider.mounted
    /\ sessionProvider' =
          [mounted |-> TRUE, enableCsrf |-> enableCsrf,
           csrfToken |-> IF enableCsrf THEN GenerateCsrfToken ELSE 0,
           generated |-> IF enableCsrf THEN sessionProvider.generated + 1
                         ELSE sessionProvider.generated]
    /\ UNCHANGED <<userSessions, revoke>>
    /\ UNCHANGED migrationVars
    /\ UNCHANGED securityVars
    /\ UNCHANGED <<middlewareVars, providerVars>>

\* revokeSession(id, token) up to its await of the update: it returns false
\* when the CSRF check fails and sends the update otherwise.
CallRevokeSession(id, token) ==
    /\ sessionProvider.mounted
    /\ revoke.pc \in {"idle", "returned"}
    /\ sessionProvider.generated < MaxTokens
    /\ revoke' = [pc |-> IF PassesCsrfCheck(token) THEN "update" ELSE "returned",
                  id |-> id, token |-> token, value |-> FALSE,
                  csrfToken |-> sessionProvider.csrfToken,
                  before |-> userSessions]
    /\ UNCHANGED <<sessionProvider, userSessions>>
    /\ UNCHANGED migrationVars
    /\ UNCHANGED securityVars
    /\ UNCHANGED <<middlewareVars, providerVars>>

\* The update of user_sessions answers: without an error the session is
\* revoked, the list is refreshed, the token is replaced when CSRF is enabled
\* and the call returns true; with an error it returns false.
UpdateUserSession(ok) ==
    /\ revoke.pc = "update"
    /\ IF ok
       THEN /\ userSessions' = [userSessions EXCEPT ![revoke.id] = TRUE]
            /\ sessionProvider' =
                  IF sessionProvider.enableCsrf
                  THEN [sessionProvider EXCEPT !.csrfToken = GenerateCsrfToken,
                                               !.generated = @ + 1]
                  ELSE sessionProvider
       ELSE UNCHANGED <<userSessions, sessionProvider>>
    /\ revoke' = [revoke EXCEPT !.pc = "returned", !.value = ok]
    /\ UNCHANGED migrationVars
    /\ UNCHANGED securityVars
    /\ UNCHANGED <<middlewareVars, providerVars>>

\* The coordinator is not in use while sessions are revoked.
InitSessions ==
    /\ InitCommon
    /\ table = {}
    /\ ~tableExists
    /\ fileText = [f \in SqlFiles |-> WithDown]
    /\ callsLeft = 0
    /\ pc = [p \in Procs |-> "off"]

NextSessions ==
    \/ \E enableCsrf \in BOOLEAN : MountSessionProvider(enableCsrf)
    \/ \E id \in SessionIds, token \in TokenChoices : CallRevokeSession(id, token)
    \/ \E ok \in BOOLEAN : UpdateUserSession(ok)

SpecSessions == InitSessions /\ [][NextSessions]_vars

\* C30: with enableCsrf, a call of revokeSession without a token or with a
\* token other than the provider's current one returns false and leaves the
\* user_sessions table as it was, and after a call that returned true the
\* token of the provider is no longer the one the call was made with.
C30_RevokeNeedsCurrentToken ==
    sessionProvider.enableCsrf =>
        /\ (/\ revoke.pc # "idle"
            /\ (revoke.token = 0 \/ revoke.token # revoke.csrfToken)) =>
              /\ revoke.pc = "returned"
              /\ revoke.value = FALSE
              /\ userSessions = revoke.before
        /\ (revoke.pc = "returned" /\ revoke.value) =>
              sessionProvider.csrfToken # revoke.csrfToken

\* What the code does hold to: with enableCsrf, a call with a token that is
\* not the current one returns false without an update, and a call that
\* returned true has replaced the token.
C30_WrongTokenRefused ==
    sessionProvider.enableCsrf =>
        /\ (/\ revoke.pc # "idle"
            /\ revoke.token # 0
            /\ revoke.token # revoke.csrfToken) =>
              /\ revoke.pc = "returned"
              /\ revoke.value = FALSE
              /\ userSessions = revoke.before
        /\ (revoke.pc = "returned" /\ revoke.value) =>
              sessionProvider.csrfToken # revoke.csrfToken

\* A call without a token has revoked a session of a provider with CSRF
\* enabled.
C30_NoTokenRevokes ==
    /\ sessionProvider.enableCsrf
    /\ revoke.pc = "returned"
    /\ revoke.token = 0
    /\ revoke.value
    /\ userSessions[revoke.id]
    /\ ~revoke.before[revoke.id]

====
